---- MODULE Spec2Model ----
(***************************************************************************)
(* Coverage computation engine of grid-square-locator.                     *)
(*                                                                         *)
(* The module models the useCoverage hook (src/src/hooks/useCoverage.ts,   *)
(* the second, visible-points variant, lines 167-328) together with the    *)
(* elevation fetch pipeline it drives                                      *)
(* (src/src/services/elevationService.ts).                                 *)
(*                                                                         *)
(* One step of the model is one JavaScript task: a user call               *)
(* (calculateCoverage, cancelCalculation, clear...), the settling of one   *)
(* fetch, or the firing of one timer, followed by every promise            *)
(* continuation (microtask) that the task makes runnable.                  *)
(*                                                                         *)
(* The horizon calculation (calculateLOSDistance, src/unnamed/part_008)    *)
(* and the Maidenhead codec (src/src/utils/maidenhead.ts) are pure         *)
(* functions; their calls are modelled by the variable call under the      *)
(* specifications LosSpec and GridSpec.                                    *)
(***************************************************************************)
EXTENDS Integers, Sequences, FiniteSets, TLC

(***************************************************************************)
(* Bounds of the model.  The sizes of the sampling grid and of the         *)
(* batching are scaled down from LOS_CONFIG (720 radials x 300 samples,    *)
(* batches of 100, 5 concurrent requests); every formula below is stated   *)
(* in terms of these names.                                                *)
(***************************************************************************)
MaxComputations == 2
NumRadials == 2
PointsPerBearing == 3
BatchSize == 2
MaxConcurrent == 2
Max429 == 2
MaxPipeline429 == 4

(***************************************************************************)
(* Program constants.                                                      *)
(***************************************************************************)
MAX_RETRIES == 3
BASE_DELAY_MS == 1000
REQUEST_DELAY_MS == 100
\* LOS_CONFIG (constants.ts 68-77); K_FACTOR is 4 / 3
MAX_DISTANCE_KM == 300
SAMPLE_INTERVAL_KM == 1
EARTH_RADIUS_KM == 6371
K_FACTOR_NUM == 4
K_FACTOR_DEN == 3

VARIABLES
    isCalculating,       \* useState(false)
    progress,            \* useState<CoverageProgress | null>(null)
    coverageDataList,    \* useState<CoverageData[]>([])
    error,               \* useState<string | null>(null)
    abortControllerRef,  \* useRef<AbortController | null>(null): 0 is null
    pc,                  \* position of each calculateCoverage call
    aborted,             \* signal.aborted of each call's AbortController
    abortedWhile,        \* which call aborted the signal while the call ran
    req,                 \* the getElevationBatch calls of each computation
    loopIndex,           \* i of the group loop of getElevationsWithThrottling
    results,             \* results of getElevationsWithThrottling
    completedBatches,    \* completedBatches of getElevationsWithThrottling
    progressLog,         \* the (completed, total) pairs passed to onProgress
    arrival,             \* batches of the current group, in completion order
    timer,               \* duration of the inter-group delay being awaited
    rateLimited,         \* number of 429 answers the provider has given
    request,             \* arguments of each calculateCoverage call
    call                 \* a call of a pure function: arguments, result

vars == <<isCalculating, progress, coverageDataList, error, abortControllerRef,
          pc, aborted, abortedWhile, req, loopIndex, results,
          completedBatches, progressLog, arrival, timer, rateLimited,
          request, call>>

Computations == 1..MaxComputations

Null == "null"
None == <<>>
Some(x) == <<x>>

Min(a, b) == IF a < b THEN a ELSE b

RECURSIVE Pow2(_)
Pow2(k) == IF k = 0 THEN 1 ELSE 2 * Pow2(k - 1)

RECURSIVE Flatten(_)
Flatten(seqs) ==
    IF seqs = <<>> THEN <<>> ELSE Head(seqs) \o Flatten(Tail(seqs))

\* flattenSamplePoints: the flat positions 1..NumPoints of the sample points
NumPoints == NumRadials * PointsPerBearing
AllLocations == [k \in 1..NumPoints |-> k]

\* for (i = 0; i < allLocations.length; i += batchSize) batches.push(slice)
NumBatches == (NumPoints + BatchSize - 1) \div BatchSize
Batch(b) ==
    SubSeq(AllLocations, (b - 1) * BatchSize + 1, Min(b * BatchSize, NumPoints))

\* a slice that takes one batch too many into the group
BatchGroupTooWide(i) == (i + 1)..Min(i + MaxConcurrent + 1, NumBatches)

\* batches.slice(i, i + maxConcurrent), as the set of batch numbers (1-based)
BatchGroup(i) == (i + 1)..Min(i + MaxConcurrent, NumBatches)

\* the request of the observer elevation is request 0 of a computation
Observer == 0
Requests == 0..NumBatches
Locations(r) == IF r = Observer THEN <<0>> ELSE Batch(r)

\* the provider's answer to a batch: one ElevationData per location, in order
ElevationAt(p) == 100 * (p % 2)
Response(locations) ==
    [k \in 1..Len(locations) |->
        [location |-> locations[k], elevation |-> ElevationAt(locations[k])]]

IdleRequest == [st |-> "idle", retry |-> 0, wait |-> 0, data |-> <<>>]

Running(p) == p \in {"observer", "fetching", "delay"}

\* Math.round((completed / total) * 100), Math.floor((completed / total) * n)
Percentage(completed, total) == (200 * completed + total) \div (2 * total)
EstimatedBearing(completed, total) == (completed * NumRadials) \div total
ProgressOf(completed, total) ==
    [currentBearing |-> EstimatedBearing(completed, total),
     totalBearings |-> NumRadials,
     percentage |-> Percentage(completed, total)]

\* the hook after construction: the useState and useRef initial values
Idle ==
    /\ isCalculating = FALSE
    /\ progress = None
    /\ coverageDataList = <<>>
    /\ error = Null
    /\ abortControllerRef = 0
    /\ pc = [c \in Computations |-> "unstarted"]
    /\ aborted = [c \in Computations |-> FALSE]
    /\ abortedWhile = [c \in Computations |-> "none"]
    /\ req = [c \in Computations |-> [r \in Requests |-> IdleRequest]]
    /\ loopIndex = [c \in Computations |-> 0]
    /\ results = [c \in Computations |-> <<>>]
    /\ completedBatches = [c \in Computations |-> 0]
    /\ progressLog = [c \in Computations |-> <<>>]
    /\ arrival = [c \in Computations |-> <<>>]
    /\ timer = [c \in Computations |-> 0]
    /\ rateLimited = 0
    /\ request = [c \in Computations |-> None]

Init == Idle /\ call = None

(***************************************************************************)
(* catch / finally of calculateCoverage (useCoverage.ts 279-289).          *)
(***************************************************************************)
Finally(c, st) ==
    /\ pc' = [pc EXCEPT ![c] = st]
    /\ isCalculating' = FALSE

\* err.name === 'AbortError': the calculation was cancelled, no error shown
CatchAbort(c) ==
    /\ progress' = None
    /\ UNCHANGED <<error, coverageDataList>>
    /\ Finally(c, "cancelled")

\* a catch block that records the error but leaves the progress in place
CatchErrorKeepsProgress(c, message) ==
    /\ error' = message
    /\ UNCHANGED <<progress, coverageDataList>>
    /\ Finally(c, "errored")

CatchError(c, message) ==
    /\ error' = message
    /\ progress' = None
    /\ UNCHANGED coverageDataList
    /\ Finally(c, "errored")

Catch(c, err) ==
    IF err = "AbortError" THEN CatchAbort(c) ELSE CatchError(c, err)

\* a promise nobody awaits any more settles: no continuation runs
NoContinuation ==
    UNCHANGED <<isCalculating, progress, coverageDataList, error, pc,
                loopIndex, results, completedBatches, progressLog, arrival,
                timer>>

\* the rays are computed from the flat elevation list; the result is appended
\* indexMap of flattenSamplePoints (part_008 244-248): flat point k (from 1)
\* is sample sampleIndex of radial number radial
IndexMap(k) ==
    [radial |-> (k - 1) \div PointsPerBearing,
     sampleIndex |-> (k - 1) % PointsPerBearing]

\* i * bearingStep with bearingStep = 360 / numRadials, as a fraction
RadialBearing(i, numRadials) == [num |-> i * 360, den |-> numRadials]
Bearing(i) == RadialBearing(i, NumRadials)

\* every ray reading the first pointsPerBearing elevations
RaySliceFromStart(allElevations, i) ==
    SubSeq(allElevations, 1, PointsPerBearing)

\* allElevations.slice(startIdx, endIdx)
RaySlice(allElevations, i) ==
    SubSeq(allElevations, i * PointsPerBearing + 1,
           i * PointsPerBearing + PointsPerBearing)

\* the ray loop (useCoverage.ts 240-265).  The body of calculateVisiblePoints
\* is not part of the sources: a ray keeps the profile passed to it, and
\* samples is the slice the profile was mapped from.
Ray(allElevations, i) ==
    LET samples == RaySlice(allElevations, i)
    IN  [bearing |-> Bearing(i),
         samples |-> samples,
         elevationProfile |-> [j \in 1..Len(samples) |-> samples[j].elevation]]

CoverageData(c, elevations) ==
    [id |-> c,
     center |-> request[c][1].center,
     antennaHeight |-> request[c][1].antennaHeight,
     rays |-> [n \in 1..NumRadials |-> Ray(elevations, n - 1)],
     elevations |-> elevations]

(***************************************************************************)
(* One iteration of the group loop of getElevationsWithThrottling          *)
(* (elevationService.ts 116-125): the cancellation check, then the         *)
(* requests of batches.slice(i, i + maxConcurrent) are issued at once.     *)
(* reqs is the request table of computation c before the iteration.        *)
(***************************************************************************)
SendGroup(reqs, i) ==
    [r \in Requests |->
        IF r \in BatchGroup(i)
        THEN [st |-> "inflight", retry |-> 0, wait |-> 0, data |-> <<>>]
        ELSE reqs[r]]

\* the loop without the signal?.aborted check
LoopIterationUnchecked(c, reqs, i) ==
    /\ loopIndex' = [loopIndex EXCEPT ![c] = i]
    /\ arrival' = [arrival EXCEPT ![c] = <<>>]
    /\ timer' = [timer EXCEPT ![c] = 0]
    /\ req' = [req EXCEPT ![c] = SendGroup(reqs, i)]
    /\ pc' = [pc EXCEPT ![c] = "fetching"]
    /\ UNCHANGED <<isCalculating, progress, error, coverageDataList>>

LoopIteration(c, reqs, i) ==
    /\ loopIndex' = [loopIndex EXCEPT ![c] = i]
    /\ arrival' = [arrival EXCEPT ![c] = <<>>]
    /\ timer' = [timer EXCEPT ![c] = 0]
    /\ IF aborted[c]
       THEN /\ req' = [req EXCEPT ![c] = reqs]
            /\ CatchAbort(c)
       ELSE /\ req' = [req EXCEPT ![c] = SendGroup(reqs, i)]
            /\ pc' = [pc EXCEPT ![c] = "fetching"]
            /\ UNCHANGED <<isCalculating, progress, error, coverageDataList>>

(***************************************************************************)
(* Promise.all of a group resolved (elevationService.ts 127-140 and        *)
(* useCoverage.ts 238-278): the batch results are pushed in the order of   *)
(* the group, progress is reported, and either the inter-group delay is    *)
(* awaited or the pipeline returns and the result is stored.               *)
(***************************************************************************)
\* results pushed as the batches complete instead of by batch index
BatchResultsByArrival(reqs, i, order) ==
    Flatten([k \in 1..Len(order) |-> reqs[order[k]].data])

BatchResults(reqs, i, order) ==
    Flatten([k \in 1..Cardinality(BatchGroup(i)) |-> reqs[i + k].data])

\* counting a full group also for the shorter last group
CompletedAfterFullGroup(completed, i) == completed + MaxConcurrent

\* completedBatches += batchGroup.length
CompletedAfter(completed, i) == completed + Cardinality(BatchGroup(i))

GroupResolved(c, reqs, order) ==
    LET i == loopIndex[c]
        newResults == results[c] \o BatchResults(reqs, i, order)
        completed == CompletedAfter(completedBatches[c], i)
    IN  /\ req' = [req EXCEPT ![c] = reqs]
        /\ results' = [results EXCEPT ![c] = newResults]
        /\ completedBatches' = [completedBatches EXCEPT ![c] = completed]
        /\ progressLog' = [progressLog EXCEPT
                              ![c] = Append(@, <<completed, NumBatches>>)]
        /\ arrival' = [arrival EXCEPT ![c] = order]
        /\ UNCHANGED <<loopIndex, error>>
        /\ IF i + MaxConcurrent < NumBatches
           THEN /\ timer' = [timer EXCEPT ![c] = REQUEST_DELAY_MS]
                /\ pc' = [pc EXCEPT ![c] = "delay"]
                /\ progress' = Some(ProgressOf(completed, NumBatches))
                /\ UNCHANGED <<isCalculating, coverageDataList>>
           ELSE /\ timer' = timer
                /\ coverageDataList' =
                       Append(coverageDataList, CoverageData(c, newResults))
                /\ progress' = None
                /\ Finally(c, "completed")

\* a start that replaces the controller without aborting the old one
AbortSkipped(signals, ref) == signals

\* abortControllerRef.current.abort(), when the ref holds a controller
Abort(signals, ref) ==
    [d \in Computations |-> IF d = ref THEN TRUE ELSE signals[d]]

\* setProgress({ currentBearing: 0, totalBearings: NUM_RADIALS, percentage: 0 })
InitialProgress ==
    [currentBearing |-> 0, totalBearings |-> NumRadials, percentage |-> 0]

(***************************************************************************)
(* Arguments of calculateCoverage: a centre in whole degrees and an        *)
(* antenna height in metres.  Map.tsx passes the marker position and the   *)
(* antenna height as they are; the height comes from the number input,     *)
(* from localStorage or from the URL (parseInt, not clamped).              *)
(***************************************************************************)
ValidRequests == {[center |-> [lat |-> 41, lng |-> 29], antennaHeight |-> 25]}

SampleRequests ==
    ValidRequests \cup
        {[center |-> [lat |-> 41, lng |-> 29], antennaHeight |-> 0],
         [center |-> [lat |-> 41, lng |-> 29], antennaHeight |-> -5],
         [center |-> [lat |-> 91, lng |-> 29], antennaHeight |-> 25]}

(***************************************************************************)
(* calculateCoverage (useCoverage.ts 201-215): up to the first await.      *)
(***************************************************************************)
calculateCoverage(c, center, antennaHeight) ==
    /\ pc[c] = "unstarted"
    /\ \A d \in Computations : d < c => pc[d] # "unstarted"
    /\ aborted' = Abort(aborted, abortControllerRef)
    /\ abortedWhile' = [d \in Computations |->
                           IF /\ d = abortControllerRef
                              /\ ~aborted[d]
                              /\ Running(pc[d])
                           THEN "start" ELSE abortedWhile[d]]
    /\ abortControllerRef' = c
    /\ isCalculating' = TRUE
    /\ error' = Null
    /\ progress' = Some(InitialProgress)
    /\ req' = [req EXCEPT ![c][Observer] =
                  [st |-> "inflight", retry |-> 0, wait |-> 0, data |-> <<>>]]
    /\ pc' = [pc EXCEPT ![c] = "observer"]
    /\ UNCHANGED <<coverageDataList, loopIndex, results, completedBatches,
                   progressLog, arrival, timer, rateLimited, call>>
    /\ request' = [request EXCEPT ![c] =
                      Some([center |-> center,
                            antennaHeight |-> antennaHeight])]

(***************************************************************************)
(* cancelCalculation (useCoverage.ts 292-299).                             *)
(***************************************************************************)
cancelCalculation ==
    /\ aborted' = Abort(aborted, abortControllerRef)
    /\ abortedWhile' = [d \in Computations |->
                           IF /\ d = abortControllerRef
                              /\ ~aborted[d]
                              /\ Running(pc[d])
                           THEN "cancel" ELSE abortedWhile[d]]
    /\ isCalculating' = FALSE
    /\ progress' = None
    /\ error' = Null
    /\ UNCHANGED <<coverageDataList, abortControllerRef, pc, req, loopIndex,
                   results, completedBatches, progressLog, arrival, timer,
                   rateLimited, request, call>>

\* clearCoverage (useCoverage.ts 302-304)
clearCoverage(id) ==
    /\ \E k \in 1..Len(coverageDataList) : coverageDataList[k].id = id
    /\ coverageDataList' = SelectSeq(coverageDataList, LAMBDA d : d.id # id)
    /\ UNCHANGED <<isCalculating, progress, error, abortControllerRef, pc,
                   aborted, abortedWhile, req, loopIndex, results,
                   completedBatches, progressLog, arrival, timer, rateLimited,
                   request, call>>

\* clearAllCoverage (useCoverage.ts 307-311)
clearAllCoverage ==
    /\ coverageDataList' = <<>>
    /\ progress' = None
    /\ error' = Null
    /\ UNCHANGED <<isCalculating, abortControllerRef, pc, aborted,
                   abortedWhile, req, loopIndex, results, completedBatches,
                   progressLog, arrival, timer, rateLimited, request, call>>

\* clearError (useCoverage.ts 313-315)
clearError ==
    /\ error' = Null
    /\ UNCHANGED <<isCalculating, progress, coverageDataList,
                   abortControllerRef, pc, aborted, abortedWhile, req,
                   loopIndex, results, completedBatches, progressLog, arrival,
                   timer, rateLimited, request, call>>

(***************************************************************************)
(* getElevationBatch (elevationService.ts 53-88).  A call is sent by       *)
(* fetch(url, { signal }) and settles in a later task.  The provider       *)
(* answers 200 with one elevation per location, 200 without results, 429   *)
(* or another non-2xx status.  Once the signal is aborted the fetch may     *)
(* reject with AbortError; a response that was already delivered when the  *)
(* signal was aborted (or a transport that does not observe the signal)    *)
(* settles the call with the response, so both outcomes are possible for a *)
(* call sent before the abort.                                             *)
(***************************************************************************)
Awaited(c, r) ==
    IF r = Observer
    THEN pc[c] = "observer"
    ELSE pc[c] = "fetching" /\ r \in BatchGroup(loopIndex[c])

\* an off-by-one retry ceiling: retryCount <= MAX_RETRIES
RetryAllowedOnceMore(status, retryCount) ==
    status = 429 /\ retryCount <= MAX_RETRIES

\* a retry of every failed response, whatever its status
RetryAnyStatus(status, retryCount) == retryCount < MAX_RETRIES

\* response.status === 429 && retryCount < MAX_RETRIES
RetryAllowed(status, retryCount) == status = 429 /\ retryCount < MAX_RETRIES

\* BASE_DELAY_MS * Math.pow(2, retryCount)
RetryDelay(retryCount) == BASE_DELAY_MS * Pow2(retryCount)

ErrorMessage(status) ==
    CASE status = 429 -> "Elevation API error: 429"
      [] status = 500 -> "Elevation API error: 500"
      [] OTHER -> "No elevation data returned"

Settled(c, r, st, data) ==
    [req[c] EXCEPT ![r] = [st |-> st, retry |-> @.retry, wait |-> 0,
                           data |-> data]]

\* the promise of request r rejects with err
Rejects(c, r, err) ==
    /\ req' = [req EXCEPT ![c] = Settled(c, r, "rejected", <<>>)]
    /\ IF Awaited(c, r)
       THEN /\ Catch(c, err)
            /\ UNCHANGED <<loopIndex, results, completedBatches, progressLog,
                           arrival, timer>>
       ELSE NoContinuation

\* 200 with data.results: the call returns the results
FetchSucceeds(c, r) ==
    /\ req[c][r].st = "inflight"
    /\ LET reqs == Settled(c, r, "ok", Response(Locations(r)))
           order == Append(arrival[c], r)
       IN  IF ~Awaited(c, r)
           THEN req' = [req EXCEPT ![c] = reqs] /\ NoContinuation
           ELSE IF r = Observer
           THEN /\ LoopIteration(c, reqs, 0)
                /\ UNCHANGED <<results, completedBatches, progressLog>>
           ELSE IF \A b \in BatchGroup(loopIndex[c]) : reqs[b].st = "ok"
           THEN /\ GroupResolved(c, reqs, order)
           ELSE /\ req' = [req EXCEPT ![c] = reqs]
                /\ arrival' = [arrival EXCEPT ![c] = order]
                /\ UNCHANGED <<isCalculating, progress, coverageDataList,
                               error, pc, loopIndex, results,
                               completedBatches, progressLog, timer>>
    /\ UNCHANGED <<abortControllerRef, aborted, abortedWhile, rateLimited,
                   request, call>>

\* an empty observer answer that is not checked: the pipeline starts
ObserverEmptyIgnored(c) ==
    /\ req[c][Observer].st = "inflight"
    /\ IF Awaited(c, Observer)
       THEN /\ LoopIteration(c, Settled(c, Observer, "ok", <<>>), 0)
            /\ UNCHANGED <<results, completedBatches, progressLog>>
       ELSE /\ req' = [req EXCEPT ![c] = Settled(c, Observer, "ok", <<>>)]
            /\ NoContinuation
    /\ UNCHANGED <<abortControllerRef, aborted, abortedWhile, rateLimited,
                   request, call>>

\* 200 with results: [] for the observer: observerElevations.length === 0
ObserverEmpty(c) ==
    /\ req[c][Observer].st = "inflight"
    /\ req' = [req EXCEPT ![c] = Settled(c, Observer, "ok", <<>>)]
    /\ IF Awaited(c, Observer)
       THEN /\ CatchError(c, "Failed to get observer elevation")
            /\ UNCHANGED <<loopIndex, results, completedBatches, progressLog,
                           arrival, timer>>
       ELSE NoContinuation
    /\ UNCHANGED <<abortControllerRef, aborted, abortedWhile, rateLimited,
                   request, call>>

\* the response has the given status: the 429 test of line 70, then the
\* !response.ok and results tests
StatusAnswer(c, r, status) ==
    /\ req[c][r].st = "inflight"
    /\ IF RetryAllowed(status, req[c][r].retry)
       THEN /\ req' = [req EXCEPT ![c][r] =
                          [st |-> "backoff", retry |-> @.retry,
                           wait |-> RetryDelay(@.retry), data |-> <<>>]]
            /\ NoContinuation
       ELSE Rejects(c, r, ErrorMessage(status))
    /\ UNCHANGED <<abortControllerRef, aborted, abortedWhile, request, call>>

\* 429: retried after the backoff delay, or thrown as !response.ok
RateLimitedAnswer(c, r) == StatusAnswer(c, r, 429)

\* a provider that answers 429 at most budget times in a run
FetchRateLimited(c, r, budget) ==
    /\ rateLimited < budget
    /\ rateLimited' = rateLimited + 1
    /\ RateLimitedAnswer(c, r)

\* a provider that may answer 429 to every request, forever
FetchRateLimitedAlways(c, r) ==
    /\ RateLimitedAnswer(c, r)
    /\ UNCHANGED rateLimited

\* another non-2xx status, or a body without results
FetchFails(c, r, status) ==
    /\ StatusAnswer(c, r, status)
    /\ UNCHANGED rateLimited

\* the fetch rejects because its signal was aborted
FetchAborts(c, r) ==
    /\ req[c][r].st = "inflight"
    /\ aborted[c]
    /\ Rejects(c, r, "AbortError")
    /\ UNCHANGED <<abortControllerRef, aborted, abortedWhile, rateLimited,
                   request, call>>

\* a retry that passes retryCount on unchanged
SameRetryCount(retryCount) == retryCount

\* getElevationBatch(locations, signal, retryCount + 1)
NextRetryCount(retryCount) == retryCount + 1

\* await delay(retryDelay) is over: getElevationBatch(locations, signal,
\* retryCount + 1); a fetch with an aborted signal rejects at once
BackoffElapsed(c, r) ==
    /\ req[c][r].st = "backoff"
    /\ IF aborted[c]
       THEN /\ req' = [req EXCEPT ![c][r] =
                          [st |-> "rejected", retry |-> NextRetryCount(@.retry),
                           wait |-> 0, data |-> <<>>]]
            /\ IF Awaited(c, r)
               THEN /\ CatchAbort(c)
                    /\ UNCHANGED <<loopIndex, results, completedBatches,
                                   progressLog, arrival, timer>>
               ELSE NoContinuation
       ELSE /\ req' = [req EXCEPT ![c][r] =
                          [st |-> "inflight", retry |-> NextRetryCount(@.retry),
                           wait |-> 0, data |-> <<>>]]
            /\ NoContinuation
    /\ UNCHANGED <<abortControllerRef, aborted, abortedWhile, rateLimited,
                   request, call>>

\* await delay(delayMs) is over: the next iteration of the group loop
DelayElapsed(c) ==
    /\ pc[c] = "delay"
    /\ LoopIteration(c, req[c], loopIndex[c] + MaxConcurrent)
    /\ UNCHANGED <<results, completedBatches, progressLog>>
    /\ UNCHANGED <<abortControllerRef, aborted, abortedWhile, rateLimited,
                   request, call>>

Next ==
    \/ \E c \in Computations, rq \in ValidRequests :
           calculateCoverage(c, rq.center, rq.antennaHeight)
    \/ cancelCalculation
    \/ \E c \in Computations : clearCoverage(c)
    \/ clearAllCoverage
    \/ clearError
    \/ \E c \in Computations, r \in Requests : FetchSucceeds(c, r)
    \/ \E c \in Computations : ObserverEmpty(c)
    \/ \E c \in Computations, r \in Requests : FetchRateLimited(c, r, Max429)
    \/ \E c \in Computations, r \in Requests, status \in {500, 200} :
           FetchFails(c, r, status)
    \/ \E c \in Computations, r \in Requests : FetchAborts(c, r)
    \/ \E c \in Computations, r \in Requests : BackoffElapsed(c, r)
    \/ \E c \in Computations : DelayElapsed(c)

Spec == Init /\ [][Next]_vars

(***************************************************************************)
(* One run of the pipeline: a single calculateCoverage call, which the     *)
(* user may cancel, against a provider that may rate-limit often enough    *)
(* to exhaust the retries of a batch.                                      *)
(***************************************************************************)
NextPipeline ==
    \/ \E rq \in SampleRequests :
           calculateCoverage(1, rq.center, rq.antennaHeight)
    \/ cancelCalculation
    \/ \E r \in Requests : FetchSucceeds(1, r)
    \/ ObserverEmpty(1)
    \/ \E r \in Requests : FetchRateLimited(1, r, MaxPipeline429)
    \/ \E r \in Requests, status \in {500, 200} : FetchFails(1, r, status)
    \/ \E r \in Requests : FetchAborts(1, r)
    \/ \E r \in Requests : BackoffElapsed(1, r)
    \/ DelayElapsed(1)

PipelineSpec == Init /\ [][NextPipeline]_vars

TypeOK ==
    /\ isCalculating \in BOOLEAN
    /\ abortControllerRef \in 0..MaxComputations
    /\ \A c \in Computations :
          pc[c] \in {"unstarted", "observer", "fetching", "delay",
                     "completed", "cancelled", "errored"}

(***************************************************************************)
(* Properties of the coverage orchestrator and of the fetch pipeline.      *)
(***************************************************************************)

\* C1: a computation that a later calculateCoverage call superseded while it
\* was in flight never stores a CoverageResult, whatever the order in which
\* its outstanding provider responses arrive.
C1_SupersededNeverEmits ==
    \A c \in Computations : abortedWhile[c] = "start" => pc[c] # "completed"

\* C2: a computation that cancelCalculation cancelled while it was in flight
\* never stores a CoverageResult, even when its pending responses (those of
\* the last batch group included) resolve successfully after the cancel.
C2_CancelledNeverEmits ==
    \A c \in Computations : abortedWhile[c] = "cancel" => pc[c] # "completed"

\* C3: while the most recently started computation has neither completed,
\* failed nor been cancelled, isCalculating is true.
C3_LatestRunningIsCalculating ==
    \A c \in Computations :
        (abortControllerRef = c /\ Running(pc[c]) /\ ~aborted[c])
            => isCalculating

\* C4: a computation that fails with a non-cancellation error stores no
\* result, sets the error message, clears progress and leaves isCalculating
\* false, with the retained results unchanged; its result never appears later.
C4_Fails(c) == Running(pc[c]) /\ pc'[c] = "errored"

C4_FailureLeavesIdleWithoutResult ==
    /\ [](\A c \in Computations :
             pc[c] = "errored" =>
                 \A k \in 1..Len(coverageDataList) : coverageDataList[k].id # c)
    /\ [][\A c \in Computations :
             C4_Fails(c) =>
                 /\ coverageDataList' = coverageDataList
                 /\ error' \in {"Elevation API error: 429",
                                "Elevation API error: 500",
                                "No elevation data returned",
                                "Failed to get observer elevation"}
                 /\ progress' = None
                 /\ isCalculating' = FALSE]_vars

\* C4 witness: a sample fetch failed while an earlier result is retained
C4_Witness ==
    \E c \in Computations :
        /\ pc[c] = "errored"
        /\ req[c][Observer].st = "ok"
        /\ \E r \in 1..NumBatches : req[c][r].st = "rejected"
        /\ error = "Elevation API error: 500"
        /\ coverageDataList # <<>>
        /\ progress = None
        /\ ~isCalculating

\* C5: getElevationsWithThrottling returns one elevation per input point,
\* output[k] belonging to input point k, whatever the completion order of the
\* concurrent batch requests of a group (the provider answers in request
\* order); the partial results are always the answers to a prefix of the input.
C5_OutputMatchesInputOrder ==
    \A c \in Computations :
        /\ Len(results[c]) <= NumPoints
        /\ \A k \in 1..Len(results[c]) :
              results[c][k].location = AllLocations[k]
        /\ pc[c] = "completed" => Len(results[c]) = NumPoints

\* C5 witness: the batches of a group completed in reverse order and the
\* group's results were appended
C5_Witness ==
    \E c \in Computations :
        /\ Len(arrival[c]) >= 2
        /\ arrival[c][1] > arrival[c][2]
        /\ Len(results[c]) >= 2 * BatchSize
        /\ completedBatches[c] >= 2

\* C6: in one run at most MAX_CONCURRENT_REQUESTS batch requests are
\* outstanding at any time, and a request of a later group is issued only
\* when every batch of the earlier groups has completed and the inter-group
\* delay has elapsed.
C6_Outstanding(c) ==
    {r \in 1..NumBatches : req[c][r].st \in {"inflight", "backoff"}}

C6_GroupOf(b) == (b - 1) \div MaxConcurrent

C6_BoundedSequentialGroups ==
    /\ [](\A c \in Computations :
             /\ Cardinality(C6_Outstanding(c)) <= MaxConcurrent
             /\ \A a, b \in 1..NumBatches :
                   (C6_GroupOf(a) < C6_GroupOf(b) /\ req[c][b].st # "idle")
                       => req[c][a].st = "ok")
    /\ [][\A c \in Computations : \A b \in 1..NumBatches :
             (C6_GroupOf(b) > 0 /\ req[c][b].st = "idle"
                  /\ req'[c][b].st # "idle")
                 => pc[c] = "delay" /\ timer[c] = REQUEST_DELAY_MS]_vars

\* C6 witness: the second group is in flight after a first group that needed
\* a 429 retry
C6_Witness ==
    \E c \in Computations :
        /\ \E b \in 1..NumBatches :
              C6_GroupOf(b) = 1 /\ req[c][b].st = "inflight"
        /\ \E a \in 1..NumBatches :
              C6_GroupOf(a) = 0 /\ req[c][a].st = "ok" /\ req[c][a].retry > 0

\* C7: a batch answered with 429 is re-sent after 1000, 2000 and 4000 ms for
\* retry 0, 1 and 2; a batch is sent at most 4 times, and a 429 answer to the
\* fourth request fails the pipeline with an error instead of a retry.
C7_ExpectedDelay == <<1000, 2000, 4000>>

C7_Answered429(c, r) ==
    /\ req[c][r].st = "inflight"
    /\ req'[c][r].st # "inflight"
    /\ rateLimited' = rateLimited + 1

C7_BackoffThenFail ==
    /\ [](\A c \in Computations : \A r \in Requests :
             /\ req[c][r].retry + 1 <= 4
             /\ req[c][r].st = "backoff" =>
                   /\ req[c][r].retry \in 0..2
                   /\ req[c][r].wait = C7_ExpectedDelay[req[c][r].retry + 1])
    /\ [][\A c \in Computations : \A r \in Requests :
             /\ (req'[c][r].retry # req[c][r].retry) =>
                   /\ req[c][r].st = "backoff"
                   /\ req'[c][r].retry = req[c][r].retry + 1
             /\ (C7_Answered429(c, r) /\ req[c][r].retry = 3) =>
                   /\ req'[c][r].st = "rejected"
                   /\ Awaited(c, r) =>
                         /\ pc'[c] = "errored"
                         /\ error' = "Elevation API error: 429"]_vars

\* C7 witness: the fourth request of a batch was answered with 429 and the
\* computation failed
C7_Witness ==
    \E c \in Computations : \E r \in 1..NumBatches :
        /\ req[c][r].st = "rejected"
        /\ req[c][r].retry = 3
        /\ pc[c] = "errored"
        /\ error = "Elevation API error: 429"
        /\ rateLimited = 4

\* C8: when the signal is aborted at a group boundary, the pipeline issues
\* none of that group's requests, no error is set, and the computation ends
\* cancelled without a result.
C8_AtBoundary(c) ==
    \/ pc[c] = "delay" /\ pc'[c] # "delay"
    \/ /\ pc[c] = "observer"
       /\ req[c][Observer].st = "inflight"
       /\ req'[c][Observer].st = "ok"
       /\ req'[c][Observer].data # <<>>

C9_GroupsCompleted(c) ==
    Cardinality({g \in 0..(NumBatches - 1) :
                    /\ g % MaxConcurrent = 0
                    /\ \A b \in BatchGroup(g) : req[c][b].st = "ok"})

C9_ProgressCalls ==
    \A c \in Computations :
        LET log == progressLog[c]
        IN  /\ Len(log) = C9_GroupsCompleted(c)
            /\ \A k \in 1..Len(log) :
                  /\ log[k][2] = NumBatches
                  /\ log[k][1] \in 1..NumBatches
                  /\ k > 1 => log[k - 1][1] < log[k][1]
                  /\ Percentage(log[k][1], log[k][2]) \in 0..100
            /\ log # <<>> => log[Len(log)][1] = completedBatches[c]
            /\ pc[c] = "completed" =>
                  /\ log # <<>>
                  /\ log[Len(log)][1] = NumBatches
                  /\ Percentage(log[Len(log)][1], log[Len(log)][2]) = 100
            /\ progress # None => progress[1].percentage \in 0..100

\* C9 witness: a successful run that reported progress more than once
C9_Witness ==
    \E c \in Computations :
        /\ pc[c] = "completed"
        /\ Len(progressLog[c]) >= 2
        /\ progressLog[c][1][1] < NumBatches

\* C10: calculateCoverage aborts the signal of the previous controller,
\* installs a fresh un-aborted controller and in the same step sets
\* isCalculating, progress 0% and a cleared error, without waiting for the
\* requests of the previous computation, which stay as they are.
C10_Starts(c) == pc[c] = "unstarted" /\ pc'[c] # "unstarted"

C10_StartSupersedes ==
    [][\A c \in Computations :
          C10_Starts(c) =>
              /\ abortControllerRef # 0 => aborted'[abortControllerRef]
              /\ abortControllerRef' = c
              /\ ~aborted'[c]
              /\ isCalculating'
              /\ progress' # None
              /\ progress'[1].percentage = 0
              /\ error' = Null
              /\ pc'[c] = "observer"
              /\ req'[c][Observer].st = "inflight"
              /\ \A d \in Computations \ {c} :
                    req'[d] = req[d] /\ pc'[d] = pc[d]]_vars

\* C10 witness: a second computation was started while a request of the
\* first was in flight and the engine showed an error-free 0% at once
C10_Witness ==
    \E c, d \in Computations :
        /\ c # d
        /\ abortControllerRef = c
        /\ pc[c] = "observer"
        /\ ~aborted[c]
        /\ aborted[d]
        /\ abortedWhile[d] = "start"
        /\ \E r \in Requests : req[d][r].st = "inflight"
        /\ isCalculating
        /\ progress = Some(InitialProgress)
        /\ error = Null

(***************************************************************************)
(* Horizon calculation: calculateLOSDistance (part_008 122-186).           *)
(*                                                                         *)
(* Distances are whole kilometres and elevations whole metres.  The code   *)
(* compares Math.atan2(heightDiff, distanceM) of two samples; distanceM is *)
(* positive, so the order of the angles is the order of the slopes         *)
(* heightDiff / distanceM, and the model compares the slopes as exact      *)
(* fractions.  With drop = 1000 d^2 K_DEN / (2 K_NUM R) metres, the slope  *)
(* of a sample times 2 K_NUM R * 1000 is h / d with                        *)
(*   h = (elevation - observerHeight) * 2 K_NUM R - 1000 K_DEN d^2,        *)
(* d in kilometres.                                                        *)
(***************************************************************************)
MaxProfileLen == 4

\* sign of p / q - r / s for q, s > 0, without forming the cross products
RECURSIVE FracCmp(_, _, _, _)
FracCmp(p, q, r, s) ==
    LET a == p \div q
        b == r \div s
        p1 == p % q
        r1 == r % s
    IN  IF a < b THEN -1
        ELSE IF a > b THEN 1
        ELSE IF p1 = 0 /\ r1 = 0 THEN 0
        ELSE IF p1 = 0 THEN -1
        ELSE IF r1 = 0 THEN 1
        ELSE FracCmp(s, r1, q, p1)

\* 2 * K_FACTOR * EARTH_RADIUS_KM, times K_FACTOR_DEN
EffectiveDiameterKm == 2 * K_FACTOR_NUM * EARTH_RADIUS_KM

\* a flat Earth: no curvature drop at any distance
NoCurvatureDrop(distanceKm) == 0

\* calculateEarthCurvatureDrop, in metres times EffectiveDiameterKm
calculateEarthCurvatureDrop(distanceKm) ==
    1000 * K_FACTOR_DEN * distanceKm * distanceKm

\* the angle with heightDiff taken from the terrain down to the observer
AngleToObserver(observerHeight, targetElevation, distance) ==
    [h |-> (observerHeight - targetElevation) * EffectiveDiameterKm
               - calculateEarthCurvatureDrop(distance),
     d |-> distance]

\* Math.atan2(heightDiff, distanceM) as the slope h / d
AngleToTerrain(observerHeight, targetElevation, distance) ==
    [h |-> (targetElevation - observerHeight) * EffectiveDiameterKm
               - calculateEarthCurvatureDrop(distance),
     d |-> distance]

\* a horizon that keeps the lowest angle seen so far
AngleLE(angle, cumulativeMaxAngle) ==
    \/ cumulativeMaxAngle = None
    \/ FracCmp(angle.h, angle.d,
               cumulativeMaxAngle[1].h, cumulativeMaxAngle[1].d) <= 0

\* angleToTerrain >= cumulativeMaxAngle; None is -Infinity
AngleGE(angle, cumulativeMaxAngle) ==
    \/ cumulativeMaxAngle = None
    \/ FracCmp(angle.h, angle.d,
               cumulativeMaxAngle[1].h, cumulativeMaxAngle[1].d) >= 0

\* a horizon that follows the last sample, visible or not
SecondLoopStepLastSample(st, angleToTerrain, distance) ==
    IF AngleGE(angleToTerrain, st.cumulativeMaxAngle)
    THEN [lastVisibleDistance |-> distance,
          cumulativeMaxAngle |-> Some(angleToTerrain),
          visible |-> Append(st.visible, TRUE)]
    ELSE [st EXCEPT !.visible = Append(@, FALSE),
                    !.cumulativeMaxAngle = Some(angleToTerrain)]

\* the body of the second loop (159-178); visible records the branch taken
SecondLoopStep(st, angleToTerrain, distance) ==
    IF AngleGE(angleToTerrain, st.cumulativeMaxAngle)
    THEN [lastVisibleDistance |-> distance,
          cumulativeMaxAngle |-> Some(angleToTerrain),
          visible |-> Append(st.visible, TRUE)]
    ELSE [st EXCEPT !.visible = Append(@, FALSE)]

\* let lastVisibleDistance = 0; let cumulativeMaxAngle = -Infinity
SecondLoopStart ==
    [lastVisibleDistance |-> 0, cumulativeMaxAngle |-> None, visible |-> <<>>]

\* the return statements (180-185)
LosResult(lastVisibleDistance, intervalKm) ==
    IF lastVisibleDistance >= MAX_DISTANCE_KM - intervalKm
    THEN MAX_DISTANCE_KM
    ELSE lastVisibleDistance

(***************************************************************************)
(* Calls of calculateLOSDistance: every short profile over a few           *)
(* elevations, and full-length profiles of MAX_DISTANCE_KM /               *)
(* SAMPLE_INTERVAL_KM samples that are flat except for their last two      *)
(* samples.  A call runs its second loop one iteration per step and then   *)
(* returns; its first loop (131-152) only computes maxBlockingAngle, which  *)
(* is not read.                                                            *)
(***************************************************************************)
SampleElevations == {0, 50, 200}
ShortProfiles ==
    UNION {[1..n -> SampleElevations] : n \in 0..MaxProfileLen}
FullProfileLen == MAX_DISTANCE_KM \div SAMPLE_INTERVAL_KM
FullProfile(a, b) ==
    [k \in 1..FullProfileLen |->
        IF k = FullProfileLen - 1 THEN a
        ELSE IF k = FullProfileLen THEN b ELSE 0]
FullProfiles == {FullProfile(a, b) : a, b \in {0, 8000}}
FlatProfile == FullProfile(0, 0)

\* a slope that rises by step metres per sample from the observer's ground
RisingProfile(observerElevation, step, n) ==
    [k \in 1..n |-> observerElevation + k * step]

LosArgs ==
    [observerElevation : {0, 100}, antennaHeight : {1, 25},
     elevationProfile : ShortProfiles]
        \cup [observerElevation : {0}, antennaHeight : {25},
              elevationProfile : FullProfiles]
        \cup {[observerElevation |-> e, antennaHeight |-> h,
               elevationProfile |-> RisingProfile(e, step, n)] :
                  e \in {0, 100}, h \in {1, 25}, step \in {10, 50},
                  n \in 2..(MaxProfileLen + 2)}

LosInit ==
    /\ Idle
    /\ call \in [args : LosArgs, i : {0}, loop : {SecondLoopStart},
                 returned : {None}]

OrchestratorUnchanged ==
    UNCHANGED <<isCalculating, progress, coverageDataList, error,
                abortControllerRef, pc, aborted, abortedWhile, req,
                loopIndex, results, completedBatches, progressLog, arrival,
                timer, rateLimited, request>>

\* one iteration of the second loop
LosIterate ==
    /\ call.returned = None
    /\ call.i < Len(call.args.elevationProfile)
    /\ LET distance == (call.i + 1) * SAMPLE_INTERVAL_KM
           angle == AngleToTerrain(call.args.observerElevation
                                       + call.args.antennaHeight,
                                   call.args.elevationProfile[call.i + 1],
                                   distance)
       IN  call' = [call EXCEPT
                       !.i = @ + 1,
                       !.loop = SecondLoopStep(@, angle, distance)]
    /\ OrchestratorUnchanged

LosReturns ==
    /\ call.returned = None
    /\ call.i >= Len(call.args.elevationProfile)
    /\ call' = [call EXCEPT
                   !.returned = Some(LosResult(call.loop.lastVisibleDistance,
                                               SAMPLE_INTERVAL_KM))]
    /\ OrchestratorUnchanged

LosNext == LosIterate \/ LosReturns

LosSpec == LosInit /\ [][LosNext]_vars

(***************************************************************************)
(* Properties of the horizon calculation.                                  *)
(***************************************************************************)
C11_FlatCall ==
    /\ call.args.observerElevation = 0
    /\ call.args.antennaHeight = 25
    /\ call.args.elevationProfile = FlatProfile
    /\ call.returned # None

\* C11 as stated: observer elevation 0, antenna 25 m and 300 zero-elevation
\* samples at 1 km give a maximum visible distance of MAX_DISTANCE_KM.
C11_FlatProfileReachesMaxRange ==
    C11_FlatCall => call.returned = Some(MAX_DISTANCE_KM)

\* C11: with observer elevation 0, antenna height 25 m and 300 zero-elevation
\* samples at 1 km spacing, the Earth-curvature drop hides every sample
\* beyond the radio horizon: the maximum visible distance is 21 km.
C11_FlatProfileReachesRadioHorizon ==
    C11_FlatCall => call.returned = Some(21)

C11_Witness == C11_FlatCall /\ call.returned = Some(21)

\* the elevation angle of sample k of the call
C12_Angle(k) ==
    AngleToTerrain(call.args.observerElevation + call.args.antennaHeight,
                   call.args.elevationProfile[k], k * SAMPLE_INTERVAL_KM)

C12_ClearsAllCloser(k) ==
    \A j \in 1..(k - 1) :
        FracCmp(C12_Angle(k).h, C12_Angle(k).d,
                C12_Angle(j).h, C12_Angle(j).d) >= 0

\* C12: in the horizon calculation sample i counts as visible exactly when
\* its elevation angle is >= the maximum elevation angle of all closer
\* samples; the running maximum, updated only on visible samples, is the
\* maximum over all samples seen so far; the first sample of a non-empty
\* profile is visible.
C12_VisibleIffClearsCloserSamples ==
    /\ Len(call.loop.visible) = call.i
    /\ \A k \in 1..call.i : call.loop.visible[k] <=> C12_ClearsAllCloser(k)
    /\ call.i >= 1 =>
          /\ call.loop.visible[1]
          /\ \E k \in 1..call.i :
                call.loop.cumulativeMaxAngle = Some(C12_Angle(k))
          /\ \A j \in 1..call.i :
                AngleGE(call.loop.cumulativeMaxAngle[1], Some(C12_Angle(j)))

\* a sample behind an occluded stretch is visible again
C12_Witness ==
    /\ call.returned # None
    /\ \E k \in 3..call.i :
          /\ call.loop.visible[k]
          /\ ~call.loop.visible[k - 1]
          /\ call.loop.visible[k - 2]

\* the index of the last sample the second loop counted as visible, or 0
C13_LastVisibleSample ==
    LET seen == {k \in 1..Len(call.loop.visible) : call.loop.visible[k]}
    IN  IF seen = {} THEN 0 ELSE CHOOSE k \in seen : \A j \in seen : j <= k

\* C13: the maximum visible distance returned for a profile equals the
\* distance (i+1) * intervalKm of the last visible sample, is the configured
\* maximum range only when every sample of the ray is visible, and is 0 for
\* a zero-length profile.
C13_MaxDistanceIsLastVisibleSample ==
    call.returned # None =>
        /\ call.returned = Some(C13_LastVisibleSample * SAMPLE_INTERVAL_KM)
        /\ call.returned = Some(MAX_DISTANCE_KM) =>
              \A k \in 1..Len(call.loop.visible) : call.loop.visible[k]
        /\ Len(call.args.elevationProfile) = 0 => call.returned = Some(0)

(***************************************************************************)
(* Maidenhead codec (src/src/utils/maidenhead.ts).                         *)
(*                                                                         *)
(* A locator is the sequence of its character codes.  Coordinates are      *)
(* exact: whole multiples of 1 / UnitsPerDegree of a degree, so that the   *)
(* sizes of the tiles of every precision (the finest is 1/5760 x 2/5760    *)
(* degrees) and their centres are whole numbers.  The code computes in     *)
(* IEEE doubles; the model has no rounding error.  latLngToMaidenhead is   *)
(* modelled for lat >= -90 and lng >= -180, where the JavaScript           *)
(* remainder agrees with %.                                                *)
(***************************************************************************)
UPPERCASE_A == 65
LOWERCASE_A == 97
UnitsPerDegree == 11520

\* latSize and lngSize of tier t: 0 is the whole world, 5 the super extended
LatSize(t) ==
    CASE t = 0 -> 180 * UnitsPerDegree
      [] t = 1 -> 10 * UnitsPerDegree
      [] t = 2 -> 1 * UnitsPerDegree
      [] t = 3 -> UnitsPerDegree \div 24
      [] t = 4 -> UnitsPerDegree \div 240
      [] t = 5 -> UnitsPerDegree \div 5760
LngSize(t) ==
    CASE t = 0 -> 360 * UnitsPerDegree
      [] t = 1 -> 20 * UnitsPerDegree
      [] t = 2 -> 2 * UnitsPerDegree
      [] t = 3 -> (2 * UnitsPerDegree) \div 24
      [] t = 4 -> (2 * UnitsPerDegree) \div 240
      [] t = 5 -> (2 * UnitsPerDegree) \div 5760

\* n.toString() of a one-digit number
Digit(n) == 48 + n

latLngToMaidenhead(lat, lng, precision) ==
    LET normLng == lng + 180 * UnitsPerDegree
        normLat == lat + 90 * UnitsPerDegree
        field == <<UPPERCASE_A + normLng \div LngSize(1),
                   UPPERCASE_A + normLat \div LatSize(1)>>
        square == <<Digit((normLng % LngSize(1)) \div LngSize(2)),
                    Digit((normLat % LatSize(1)) \div LatSize(2))>>
        subsquare == <<LOWERCASE_A + (normLng % LngSize(2)) \div LngSize(3),
                       LOWERCASE_A + (normLat % LatSize(2)) \div LatSize(3)>>
        extended == <<Digit((normLng % LngSize(3)) \div LngSize(4)),
                      Digit((normLat % LatSize(3)) \div LatSize(4))>>
        super == <<LOWERCASE_A + (normLng % LngSize(4)) \div LngSize(5),
                   LOWERCASE_A + (normLat % LatSize(4)) \div LatSize(5)>>
    IN  IF precision = 2 THEN field
        ELSE IF precision = 4 THEN field \o square
        ELSE IF precision = 6 THEN field \o square \o subsquare
        ELSE IF precision = 8
        THEN field \o square \o subsquare \o extended
        ELSE field \o square \o subsquare \o extended \o super

\* a decoder that reads the characters as they are
KeepCase(locator) == locator

\* locator.toUpperCase()
ToUpperCase(locator) ==
    [k \in 1..Len(locator) |->
        IF locator[k] \in 97..122 THEN locator[k] - 32 ELSE locator[k]]

\* parseInt of one character: None is NaN
ParseInt(ch) == IF ch \in 48..57 THEN Some(ch - 48) ELSE None

\* fieldLng, squareLng, ...: the index that tier t reads at position pos
TierIndex(upper, t, pos) ==
    IF t \in {2, 4}
    THEN ParseInt(upper[pos])
    ELSE Some(upper[pos] - UPPERCASE_A)

\* the blocks "if (upper.length >= 2 t)" that run
TiersRead(upper) == {t \in 1..5 : Len(upper) >= 2 * t}

\* sizes that stay those of the field block
FieldTierOnly(upper) == Min(Len(upper) \div 2, 1)

\* the size left by the last block that ran
LastTier(upper) == Min(Len(upper) \div 2, 5)

RECURSIVE SumOver(_, _)
SumOver(f, S) ==
    IF S = {} THEN 0
    ELSE LET t == CHOOSE x \in S : TRUE IN f[t] + SumOver(f, S \ {t})

\* the tile's centre taken at its north-east corner
CenterAtNortheast(southwest, size) == southwest + size

\* lat + latSize / 2
Center(southwest, size) == southwest + size \div 2

\* isNaN tells which coordinates are NaN (a parseInt that read no digit)
maidenheadToBounds(locator) ==
    LET upper == ToUpperCase(locator)
        read == TiersRead(upper)
        lngIdx == [t \in read |-> TierIndex(upper, t, 2 * t - 1)]
        latIdx == [t \in read |-> TierIndex(upper, t, 2 * t)]
        lngNaN == \E t \in read : lngIdx[t] = None
        latNaN == \E t \in read : latIdx[t] = None
        lng == IF lngNaN THEN 0
               ELSE -180 * UnitsPerDegree
                        + SumOver([t \in read |-> lngIdx[t][1] * LngSize(t)],
                                  read)
        lat == IF latNaN THEN 0
               ELSE -90 * UnitsPerDegree
                        + SumOver([t \in read |-> latIdx[t][1] * LatSize(t)],
                                  read)
        lngSize == LngSize(LastTier(upper))
        latSize == LatSize(LastTier(upper))
    IN  [southwest |-> [lat |-> lat, lng |-> lng],
         northeast |-> [lat |-> lat + latSize, lng |-> lng + lngSize],
         center |-> [lat |-> Center(lat, latSize),
                     lng |-> Center(lng, lngSize)],
         isNaN |-> [lat |-> latNaN, lng |-> lngNaN]]

\* value.trim(), for the space character
RECURSIVE trim(_)
trim(value) ==
    IF value = <<>> THEN value
    ELSE IF Head(value) = 32 THEN trim(Tail(value))
    ELSE IF value[Len(value)] = 32
    THEN trim(SubSeq(value, 1, Len(value) - 1))
    ELSE value

\* /^[a-zA-Z]{2}([0-9]{2}([a-zA-Z]{2}([0-9]{2}([a-zA-Z]{2})?)?)?)?$/
GRID_SQUARE_PATTERN(str) ==
    /\ Len(str) \in {2, 4, 6, 8, 10}
    /\ \A k \in 1..Len(str) :
          IF ((k + 1) \div 2) \in {2, 4}
          THEN str[k] \in 48..57
          ELSE str[k] \in (65..90) \cup (97..122)

isValidGridSquare(value) == GRID_SQUARE_PATTERN(trim(value))

\* isValidCoordinate (part_008 22-24), in units
isValidCoordinate(lat, lng) ==
    /\ lat >= -90 * UnitsPerDegree
    /\ lat <= 90 * UnitsPerDegree
    /\ lng >= -180 * UnitsPerDegree
    /\ lng <= 180 * UnitsPerDegree

(***************************************************************************)
(* Calls of the codec.  A round trip either encodes a point and decodes    *)
(* the locator, or decodes a locator and encodes the centre of its bounds  *)
(* at the precision of the locator's length.                               *)
(*                                                                         *)
(* The points are the south-west corners of tiles whose index in every     *)
(* tier is one of two values, moved by an offset smaller than the finest   *)
(* tile (offset 0 leaves the point on a tile boundary).  The locators are  *)
(* built from a few characters per position, in both cases, together with  *)
(* malformed strings: odd and over-long lengths and characters outside the *)
(* range of their position.                                                *)
(***************************************************************************)
SampleLats ==
    {-90 * UnitsPerDegree + f * LatSize(1) + s * LatSize(2) + ss * LatSize(3)
         + e * LatSize(4) + su * LatSize(5) + off :
        f \in {0, 17}, s \in {0, 9}, ss \in {0, 23}, e \in {0, 9},
        su \in {0, 23}, off \in {0, 1}}
SampleLngs ==
    {-180 * UnitsPerDegree + f * LngSize(1) + s * LngSize(2)
         + ss * LngSize(3) + e * LngSize(4) + su * LngSize(5) + off :
        f \in {10, 17}, s \in {4, 9}, ss \in {10, 23}, e \in {5, 9},
        su \in {18, 23}, off \in {0, 2}}

\* characters offered at the two positions of tier t: A R k, 0 9, a x K, ...
TierChars(t) ==
    CASE t = 1 -> {65, 82, 107}
      [] t = 2 -> {48, 57}
      [] t = 3 -> {97, 120, 75}
      [] t = 4 -> {52, 57}
      [] t = 5 -> {97, 120, 83}

RECURSIVE LocatorsOfTier(_)
LocatorsOfTier(t) ==
    IF t = 0 THEN {<<>>}
    ELSE {l \o <<a, b>> : l \in LocatorsOfTier(t - 1),
                          a \in TierChars(t), b \in TierChars(t)}

\* "KN41kb58sn" and its prefixes, "KN41kb58snAA"
KN41kb58sn == <<75, 78, 52, 49, 107, 98, 53, 56, 115, 110>>
\* "SN", "KS", "Z!", "1N", "KNA1", "KN4B", "KN41yb", "KN41ky", "KN41kb5x",
\* "KN41kbx8", "KN41kb58yn", "KN41kb58sy"
OutOfRangeLocators ==
    {<<83, 78>>, <<75, 83>>, <<90, 33>>, <<49, 78>>,
     <<75, 78, 65, 49>>, <<75, 78, 52, 66>>,
     <<75, 78, 52, 49, 121, 98>>, <<75, 78, 52, 49, 107, 121>>,
     <<75, 78, 52, 49, 107, 98, 53, 120>>,
     <<75, 78, 52, 49, 107, 98, 120, 56>>,
     <<75, 78, 52, 49, 107, 98, 53, 56, 121, 110>>,
     <<75, 78, 52, 49, 107, 98, 53, 56, 115, 121>>}
\* "KN " and " SN": locators typed with a space around them
PaddedLocators == {<<75, 78, 32>>, <<32, 83, 78>>}
SampleLocators ==
    UNION {LocatorsOfTier(t) : t \in 1..5}
        \cup {SubSeq(KN41kb58sn, 1, n) : n \in 0..10}
        \cup {KN41kb58sn \o <<65>>, KN41kb58sn \o <<65, 65>>}
        \cup OutOfRangeLocators
        \cup PaddedLocators

\* points on the northern and eastern limits of the coordinate range
EdgePoints ==
    {[lat |-> 90 * UnitsPerDegree, lng |-> 180 * UnitsPerDegree],
     [lat |-> 90 * UnitsPerDegree, lng |-> 0],
     [lat |-> 0, lng |-> 180 * UnitsPerDegree],
     [lat |-> -90 * UnitsPerDegree, lng |-> -180 * UnitsPerDegree]}

GridInit ==
    /\ Idle
    /\ \/ call \in [first : {"encode"},
                    point : {Some([lat |-> lat, lng |-> lng]) :
                                 lat \in SampleLats, lng \in SampleLngs}
                            \cup {Some(p) : p \in EdgePoints},
                    precision : {2, 4, 6, 8, 10},
                    locator : {None}, bounds : {None}, relocated : {None}]
       \/ call \in [first : {"decode"}, point : {None}, precision : {0},
                    locator : {Some(l) : l \in SampleLocators},
                    bounds : {None}, relocated : {None}]

\* latLngToMaidenhead(point.lat, point.lng, precision)
GridEncode ==
    /\ call.first = "encode"
    /\ call.locator = None
    /\ call' = [call EXCEPT
                   !.locator = Some(latLngToMaidenhead(call.point[1].lat,
                                                       call.point[1].lng,
                                                       call.precision))]
    /\ OrchestratorUnchanged

\* maidenheadToBounds(locator): it has no throw statement and returns
GridDecode ==
    /\ call.locator # None
    /\ call.bounds = None
    /\ call' = [call EXCEPT
                   !.bounds = Some(maidenheadToBounds(call.locator[1]))]
    /\ OrchestratorUnchanged

\* latLngToMaidenhead(bounds.center.lat, bounds.center.lng, locator.length)
GridEncodeCenter ==
    /\ call.first = "decode"
    /\ call.bounds # None
    /\ call.relocated = None
    /\ ~call.bounds[1].isNaN.lat
    /\ ~call.bounds[1].isNaN.lng
    /\ isValidCoordinate(call.bounds[1].center.lat, call.bounds[1].center.lng)
    /\ call' = [call EXCEPT
                   !.relocated =
                       Some(latLngToMaidenhead(call.bounds[1].center.lat,
                                               call.bounds[1].center.lng,
                                               Len(call.locator[1])))]
    /\ OrchestratorUnchanged

GridNext == GridEncode \/ GridDecode \/ GridEncodeCenter

GridSpec == GridInit /\ [][GridNext]_vars

(***************************************************************************)
(* Properties of the Maidenhead codec.                                     *)
(***************************************************************************)
\* the point lies on no tile boundary of tier t
C14_StrictlyInside(point, t) ==
    /\ (point.lat + 90 * UnitsPerDegree) % LatSize(t) # 0
    /\ (point.lng + 180 * UnitsPerDegree) % LngSize(t) # 0

C14_Contains(bounds, point) ==
    /\ ~bounds.isNaN.lat
    /\ ~bounds.isNaN.lng
    /\ bounds.southwest.lat <= point.lat
    /\ point.lat <= bounds.northeast.lat
    /\ bounds.southwest.lng <= point.lng
    /\ point.lng <= bounds.northeast.lng

\* C14: for every precision p in {2,4,6,8,10} and every point strictly
\* inside a tile of precision p, the bounds that maidenheadToBounds returns
\* for latLngToMaidenhead(point, p) contain the point.
C14_RoundTripContainsPoint ==
    (/\ call.first = "encode"
     /\ call.bounds # None
     /\ C14_StrictlyInside(call.point[1], call.precision \div 2))
        => C14_Contains(call.bounds[1], call.point[1])

C14_Witness ==
    /\ call.first = "encode"
    /\ call.bounds # None
    /\ call.precision = 10
    /\ C14_StrictlyInside(call.point[1], 5)
    /\ C14_Contains(call.bounds[1], call.point[1])
    /\ \E k \in 1..10 : call.locator[1][k] \in 97..122

\* the letter and digit ranges of the positions: A-R, 0-9, A-X, 0-9, A-X
C15_InRange(ch, pos) ==
    CASE pos \in {1, 2} -> ch \in 65..82 \/ ch \in 97..114
      [] pos \in {3, 4, 7, 8} -> ch \in 48..57
      [] OTHER -> ch \in 65..88 \/ ch \in 97..120

C15_ValidLocator(locator) ==
    /\ Len(locator) \in {2, 4, 6, 8, 10}
    /\ \A k \in 1..Len(locator) : C15_InRange(locator[k], k)

\* C15: for every valid locator L of length 2, 4, 6, 8 or 10,
\* latLngToMaidenhead applied to the centre of maidenheadToBounds(L) at
\* precision len(L) returns L again, compared case-normalized.
C15_CenterEncodesToLocator ==
    (call.first = "decode" /\ C15_ValidLocator(call.locator[1]))
        => /\ call.bounds # None =>
                 (\/ call.relocated # None
                  \/ ENABLED GridEncodeCenter)
           /\ call.relocated # None =>
                 ToUpperCase(call.relocated[1]) = ToUpperCase(call.locator[1])

C15_Witness ==
    /\ call.first = "decode"
    /\ call.locator = Some(SubSeq(KN41kb58sn, 1, 6))
    /\ call.bounds # None
    /\ call.bounds[1].northeast.lat - call.bounds[1].southwest.lat
           = UnitsPerDegree \div 24
    /\ call.bounds[1].northeast.lng - call.bounds[1].southwest.lng
           = (2 * UnitsPerDegree) \div 24
    /\ call.relocated # None
    /\ ToUpperCase(call.relocated[1]) = <<75, 78, 52, 49, 75, 66>>

\* C16: maidenheadToBounds fails with InvalidLocator, instead of returning
\* bounds, whenever the locator's length is not in {2,4,6,8,10} or one of
\* its characters is outside the letter/digit range of its position.
C16_InvalidLocatorFails ==
    (call.first = "decode" /\ ~C15_ValidLocator(call.locator[1]))
        => call.bounds = None

(***************************************************************************)
(* Properties of the coverage orchestrator (continued).                    *)
(***************************************************************************)
C17_InvalidRequest(rq) ==
    \/ rq.antennaHeight <= 0
    \/ rq.center.lat < -90
    \/ rq.center.lat > 90
    \/ rq.center.lng < -180
    \/ rq.center.lng > 180

\* C17: a coverage request with a non-positive antenna height or with
\* observer coordinates outside latitude [-90,90] / longitude [-180,180] is
\* rejected before any network request is issued: calculateCoverage sends no
\* elevation request for it.
C17_InvalidRequestSendsNothing ==
    \A c \in Computations :
        (request[c] # None /\ C17_InvalidRequest(request[c][1]))
            => \A r \in Requests : req[c][r].st = "idle"

Answer(c, r) ==
    \/ FetchSucceeds(c, r)
    \/ r = Observer /\ ObserverEmpty(c)
    \/ FetchRateLimitedAlways(c, r)
    \/ \E status \in {500, 200} : FetchFails(c, r, status)
    \/ FetchAborts(c, r)

LiveNext ==
    \/ \E rq \in ValidRequests :
           calculateCoverage(1, rq.center, rq.antennaHeight)
    \/ cancelCalculation
    \/ \E r \in Requests : FetchSucceeds(1, r)
    \/ ObserverEmpty(1)
    \/ \E r \in Requests : FetchRateLimitedAlways(1, r)
    \/ \E r \in Requests, status \in {500, 200} : FetchFails(1, r, status)
    \/ \E r \in Requests : FetchAborts(1, r)
    \/ \E r \in Requests : BackoffElapsed(1, r)
    \/ DelayElapsed(1)

Fairness ==
    /\ \A r \in Requests : WF_vars(Answer(1, r))
    /\ \A r \in Requests : WF_vars(BackoffElapsed(1, r))
    /\ WF_vars(DelayElapsed(1))

LiveSpec == Init /\ [][LiveNext]_vars /\ Fairness

C19_Terminated(c) ==
    /\ pc[c] \in {"completed", "cancelled", "errored"}
    /\ ~isCalculating

\* C19: under fairness and a provider that eventually answers every request,
\* every started computation eventually terminates as completed, cancelled
\* or errored with isCalculating false, also when the provider answers 429
\* to every request forever.
C19_EveryComputationTerminates ==
    \A c \in Computations : Running(pc[c]) ~> C19_Terminated(c)

\* the retries of a request ran out against a provider that only answers 429
C19_Witness ==
    /\ pc[1] = "errored"
    /\ error = "Elevation API error: 429"
    /\ req[1][Observer].retry = MAX_RETRIES
    /\ ~isCalculating

\* the observer-elevation fetch was rejected or returned no result
C20_ObserverFailed(c) ==
    \/ req[c][Observer].st = "rejected"
    \/ req[c][Observer].st = "ok" /\ req[c][Observer].data = <<>>

C20_NoBatchSent(c) == \A b \in 1..NumBatches : req[c][b].st = "idle"

\* C20: if the observer-elevation fetch of a computation fails or returns no
\* result, the computation ends errored (cancelled when the fetch was
\* rejected by the aborted signal) and no batch request of
\* getElevationsWithThrottling is ever sent for it.
C20_ObserverFailureIsFatal ==
    /\ [](\A c \in Computations :
             C20_ObserverFailed(c) =>
                 /\ C20_NoBatchSent(c)
                 /\ pc[c] \in {"errored", "cancelled"}
                 /\ pc[c] = "cancelled" => aborted[c])
    /\ [][\A c \in Computations :
             (/\ req[c][Observer].st = "inflight"
              /\ ~aborted[c]
              /\ req'[c][Observer].st \in {"rejected", "ok"}
              /\ req'[c][Observer].data = <<>>)
                 => (pc'[c] = "errored" /\ error' # Null /\ ~isCalculating')]_vars

C20_Witness ==
    /\ pc[1] = "errored"
    /\ error = "Failed to get observer elevation"
    /\ C20_ObserverFailed(1)
    /\ C20_NoBatchSent(1)

C21_LaterGroupsUnsent(c) ==
    \A b \in 1..NumBatches :
        b \notin 1..Min(loopIndex[c] + MaxConcurrent, NumBatches)
            => req[c][b].st = "idle"

\* C21: a batch response with a non-2xx status other than 429 is never
\* retried: the request is rejected at once with its retry count unchanged
\* and is never sent again, the pipeline has failed after that step, and no
\* batch of a later group is ever issued.
C21_ServerErrorIsFatal ==
    /\ [][\A c \in Computations, b \in 1..NumBatches :
             FetchFails(c, b, 500) =>
                 /\ req'[c][b].st = "rejected"
                 /\ req'[c][b].retry = req[c][b].retry
                 /\ pc'[c] \in {"errored", "cancelled"}
                 /\ Awaited(c, b) =>
                       (pc'[c] = "errored"
                            /\ error' = "Elevation API error: 500")]_vars
    /\ [][\A c \in Computations, b \in 1..NumBatches :
             req[c][b].st = "rejected" => req'[c][b] = req[c][b]]_vars
    /\ [](\A c \in Computations :
             pc[c] \in {"errored", "cancelled"} => C21_LaterGroupsUnsent(c))

\* the first group failed on a 500 while later batches were still unsent
C21_Witness ==
    /\ pc[1] = "errored"
    /\ error = "Elevation API error: 500"
    /\ req[1][1].st = "rejected"
    /\ req[1][1].retry = 0
    /\ loopIndex[1] = 0
    /\ req[1][NumBatches].st = "idle"

\* C22: whenever the engine is idle (isCalculating false) progress is null:
\* progress is cleared on completion, on error and on cancellation, and no
\* late progress callback of a cancelled or superseded computation makes it
\* non-null again.
C22_IdleHasNoProgress == ~isCalculating => progress = None

\* C23: the error state is set only by a failure of the most recently
\* started, un-cancelled computation: a computation that was superseded or
\* cancelled never ends errored (the catch block that sets the error).
C23_OnlyCurrentComputationSetsError ==
    [][\A c \in Computations :
          (pc[c] # "errored" /\ pc'[c] = "errored")
              => (abortControllerRef = c /\ ~aborted[c] /\ error' # Null)]_vars

(***************************************************************************)
(* Sample points: getElevationSamplePoints and flattenSamplePoints         *)
(* (part_008 83-98, 230-252).  calculatePointAtBearing is spherical        *)
(* trigonometry in doubles; a point is kept as the arguments it was        *)
(* computed from.  flattenSamplePoints reads NUM_RADIALS, MAX_DISTANCE_KM  *)
(* and SAMPLE_INTERVAL_KM from LOS_CONFIG: the configuration is an         *)
(* argument of the call, drawn from the small values below.                *)
(***************************************************************************)
MaxRadials == 4
MaxRangeKm == 7
MaxIntervalKm == 3

calculatePointAtBearing(origin, bearing, distanceKm) ==
    [origin |-> origin, bearing |-> bearing, distanceKm |-> distanceKm]

\* sampling that starts at the origin: distance = (i - 1) * intervalKm
SamplePointsFromOrigin(origin, bearing, maxDistanceKm, intervalKm) ==
    [i \in 1..(maxDistanceKm \div intervalKm) |->
        calculatePointAtBearing(origin, bearing, (i - 1) * intervalKm)]

getElevationSamplePoints(origin, bearing, maxDistanceKm, intervalKm) ==
    LET numPoints == maxDistanceKm \div intervalKm
    IN  [i \in 1..numPoints |->
            calculatePointAtBearing(origin, bearing, i * intervalKm)]

flattenSamplePoints(origin, config) ==
    LET numRadials == config.NUM_RADIALS
        pointsPerBearing ==
            config.MAX_DISTANCE_KM \div config.SAMPLE_INTERVAL_KM
        samplePoints ==
            [n \in 1..numRadials |->
                getElevationSamplePoints(origin,
                                         RadialBearing(n - 1, numRadials),
                                         config.MAX_DISTANCE_KM,
                                         config.SAMPLE_INTERVAL_KM)]
    IN  [points |-> Flatten(samplePoints),
         indexMap |->
             Flatten([n \in 1..numRadials |->
                         [j \in 1..Len(samplePoints[n]) |->
                             [bearing |-> RadialBearing(n - 1, numRadials),
                              sampleIndex |-> j - 1]]]),
         numRadials |-> numRadials,
         pointsPerBearing |-> pointsPerBearing]

FlattenArgs ==
    [origin : {[lat |-> 41, lng |-> 29], [lat |-> -34, lng |-> 151]},
     config : [NUM_RADIALS : 1..MaxRadials,
               MAX_DISTANCE_KM : 0..MaxRangeKm,
               SAMPLE_INTERVAL_KM : 1..MaxIntervalKm]]

FlattenInit ==
    /\ Idle
    /\ call \in [args : FlattenArgs, returned : {None}]

FlattenReturns ==
    /\ call.returned = None
    /\ call' = [call EXCEPT
                   !.returned = Some(flattenSamplePoints(call.args.origin,
                                                         call.args.config))]
    /\ OrchestratorUnchanged

FlattenNext == FlattenReturns

FlattenSpec == FlattenInit /\ [][FlattenNext]_vars

\* C24: flattenSamplePoints returns NUM_RADIALS * floor(MAX_DISTANCE_KM /
\* SAMPLE_INTERVAL_KM) points; the point at flat position
\* i * pointsPerBearing + j is sample j (distance (j + 1) * interval) of
\* bearing i * (360 / NUM_RADIALS), and indexMap at that position records
\* that (bearing, sampleIndex) pair.
C24_FlatPositionsFollowRadials ==
    call.returned # None =>
        LET config == call.args.config
            out == call.returned[1]
            ppb == config.MAX_DISTANCE_KM \div config.SAMPLE_INTERVAL_KM
        IN  /\ out.numRadials = config.NUM_RADIALS
            /\ out.pointsPerBearing = ppb
            /\ Len(out.points) = config.NUM_RADIALS * ppb
            /\ Len(out.indexMap) = Len(out.points)
            /\ \A i \in 0..(config.NUM_RADIALS - 1), j \in 0..(ppb - 1) :
                  LET k == i * ppb + j + 1
                  IN  /\ out.points[k].origin = call.args.origin
                      /\ out.points[k].distanceKm
                             = (j + 1) * config.SAMPLE_INTERVAL_KM
                      /\ out.points[k].bearing.num * config.NUM_RADIALS
                             = i * 360 * out.points[k].bearing.den
                      /\ out.indexMap[k].bearing = out.points[k].bearing
                      /\ out.indexMap[k].sampleIndex = j

\* a range that the interval does not divide, on several radials
C24_Witness ==
    /\ call.returned # None
    /\ call.args.config =
           [NUM_RADIALS |-> 3, MAX_DISTANCE_KM |-> 7, SAMPLE_INTERVAL_KM |-> 2]
    /\ Len(call.returned[1].points) = 9
    /\ call.returned[1].points[9].distanceKm = 6
    /\ call.returned[1].indexMap[9].sampleIndex = 2

\* the tier spans in units: longitude, latitude
C25_Span(p) ==
    CASE p = 2 -> <<20 * UnitsPerDegree, 10 * UnitsPerDegree>>
      [] p = 4 -> <<2 * UnitsPerDegree, UnitsPerDegree>>
      [] p = 6 -> <<(2 * UnitsPerDegree) \div 24, UnitsPerDegree \div 24>>
      [] p = 8 -> <<(2 * UnitsPerDegree) \div 240, UnitsPerDegree \div 240>>
      [] p = 10 -> <<(2 * UnitsPerDegree) \div 5760, UnitsPerDegree \div 5760>>

C25_Decoded ==
    /\ call.first = "decode"
    /\ C15_ValidLocator(call.locator[1])
    /\ call.bounds # None

\* C25: for a valid locator of length p, maidenheadToBounds returns
\* northeast = southwest + the span of the tier of p (20 x 10, 2 x 1,
\* 2/24 x 1/24, 2/240 x 1/240, 2/5760 x 1/5760 degrees of longitude x
\* latitude) and center = their midpoint, so southwest <= center <=
\* northeast in both coordinates.
C25_BoundsSpanTheTier ==
    C25_Decoded =>
        LET b == call.bounds[1]
            span == C25_Span(Len(call.locator[1]))
        IN  /\ ~b.isNaN.lat /\ ~b.isNaN.lng
            /\ b.northeast.lng = b.southwest.lng + span[1]
            /\ b.northeast.lat = b.southwest.lat + span[2]
            /\ 2 * b.center.lng = b.southwest.lng + b.northeast.lng
            /\ 2 * b.center.lat = b.southwest.lat + b.northeast.lat
            /\ b.southwest.lat <= b.center.lat
            /\ b.center.lat <= b.northeast.lat
            /\ b.southwest.lng <= b.center.lng
            /\ b.center.lng <= b.northeast.lng

C25_Witness ==
    /\ C25_Decoded
    /\ call.locator = Some(KN41kb58sn)
    /\ call.bounds[1].northeast.lat - call.bounds[1].southwest.lat
           = UnitsPerDegree \div 5760
    /\ call.bounds[1].southwest.lat < call.bounds[1].center.lat
    /\ call.bounds[1].center.lat < call.bounds[1].northeast.lat

\* the profile rises strictly from sample to sample
C26_Rising(profile) ==
    /\ Len(profile) >= 2
    /\ \A k \in 2..Len(profile) : profile[k] > profile[k - 1]

\* the profile is a uniform slope that starts at the observer's ground
C26_UniformSlope(args) ==
    /\ Len(args.elevationProfile) >= 2
    /\ \E step \in 1..200 :
          args.elevationProfile =
              RisingProfile(args.observerElevation, step,
                            Len(args.elevationProfile))

MaxSearches == 3
ClockStepMs == 250
MaxClockMs == 3000

NOMINATIM_RATE_LIMIT == 1000

Searches == 1..MaxSearches

\* rateLimit up to its await: the time to wait, 0 when no wait is needed
waitTime(now, lastRequestTime) ==
    IF now - lastRequestTime < NOMINATIM_RATE_LIMIT
    THEN NOMINATIM_RATE_LIMIT - (now - lastRequestTime)
    ELSE 0

\* the end of rateLimit and the fetch that follows it in the same task
SendRequest(s) ==
    call' = [call EXCEPT !.lastRequestTime = call.now,
                         !.sent = Append(@, call.now),
                         !.searches[s] = [pc |-> "fetching", wake |-> 0]]

NominatimInit ==
    /\ Idle
    /\ call \in [now : {NOMINATIM_RATE_LIMIT, NOMINATIM_RATE_LIMIT + ClockStepMs},
                 lastRequestTime : {0},
                 searches : {[s \in Searches |-> [pc |-> "idle", wake |-> 0]]},
                 sent : {<<>>}]

\* searchLocation with an empty query or a cached answer: no request
SearchAnsweredLocally(s) ==
    /\ call.searches[s].pc = "idle"
    /\ call' = [call EXCEPT !.searches[s] = [pc |-> "done", wake |-> 0]]
    /\ OrchestratorUnchanged

\* searchLocation up to its first real suspension
searchLocation(s) ==
    /\ call.searches[s].pc = "idle"
    /\ LET w == waitTime(call.now, call.lastRequestTime)
       IN  IF w > 0
           THEN call' = [call EXCEPT !.searches[s] =
                             [pc |-> "waiting", wake |-> call.now + w]]
           ELSE SendRequest(s)
    /\ OrchestratorUnchanged

\* the delay of rateLimit elapses
RateLimitElapsed(s) ==
    /\ call.searches[s].pc = "waiting"
    /\ call.now >= call.searches[s].wake
    /\ SendRequest(s)
    /\ OrchestratorUnchanged

\* the response arrives, or the request fails and the error is rethrown
SearchSettles(s) ==
    /\ call.searches[s].pc = "fetching"
    /\ call' = [call EXCEPT !.searches[s] = [pc |-> "done", wake |-> 0]]
    /\ OrchestratorUnchanged

\* time passes while no timer is due
ClockAdvances ==
    /\ call.now + ClockStepMs <= MaxClockMs
    /\ \A s \in Searches :
          call.searches[s].pc = "waiting"
              => call.searches[s].wake > call.now
    /\ call' = [call EXCEPT !.now = call.now + ClockStepMs]
    /\ OrchestratorUnchanged

NominatimNext ==
    \/ \E s \in Searches : SearchAnsweredLocally(s)
    \/ \E s \in Searches : searchLocation(s)
    \/ \E s \in Searches : RateLimitElapsed(s)
    \/ \E s \in Searches : SearchSettles(s)
    \/ ClockAdvances

NominatimSpec == NominatimInit /\ [][NominatimNext]_vars

\* C27 as stated: successive requests of searchLocation are at least
\* NOMINATIM_RATE_LIMIT milliseconds apart, also when several calls are
\* pending at once.
C27_RequestsAreSpaced ==
    \A k \in 2..Len(call.sent) :
        call.sent[k] - call.sent[k - 1] >= NOMINATIM_RATE_LIMIT

\* the characters of a locator lie in the ranges of their tiers
C28_InTierRanges(locator) ==
    \A k \in 1..Len(locator) :
        LET t == (k + 1) \div 2
        IN  IF t = 1 THEN locator[k] \in UPPERCASE_A..(UPPERCASE_A + 17)
            ELSE IF t \in {2, 4} THEN locator[k] \in 48..57
            ELSE locator[k] \in LOWERCASE_A..(LOWERCASE_A + 23)

\* C28 as stated: for every point with latitude in [-90, 90] and longitude
\* in [-180, 180], the limits 90 and 180 included, latLngToMaidenhead
\* returns field letters in A-R, digits in 0-9 and subsquare and
\* super-extended letters in a-x.
C28_EncodedCharsInRange ==
    (/\ call.first = "encode"
     /\ call.locator # None
     /\ isValidCoordinate(call.point[1].lat, call.point[1].lng))
        => C28_InTierRanges(call.locator[1])

\* C29 as stated: every string accepted by isValidGridSquare decodes
\* through maidenheadToBounds to bounds whose southwest and northeast
\* corners lie inside latitude [-90, 90] and longitude [-180, 180].
C29_AcceptedLocatorDecodesInsideWorld ==
    (/\ call.first = "decode"
     /\ call.bounds # None
     /\ isValidGridSquare(call.locator[1]))
        => LET b == call.bounds[1]
           IN  /\ ~b.isNaN.lat
               /\ ~b.isNaN.lng
               /\ isValidCoordinate(b.southwest.lat, b.southwest.lng)
               /\ isValidCoordinate(b.northeast.lat, b.northeast.lng)

(***************************************************************************)
(* Two calls of calculateLOSDistance over the same observer ground and     *)
(* the same profile, one with a lower and one with a higher antenna, run   *)
(* side by side: both second loops take iteration i in the same step.      *)
(***************************************************************************)
AntennaHeights == {1, 25, 120}

AntennaPairs == {hs \in AntennaHeights \X AntennaHeights : hs[1] < hs[2]}

LosPairArgs ==
    {[observerElevation |-> e, elevationProfile |-> p,
      lower |-> hs[1], higher |-> hs[2]] :
        e \in {0, 100},
        p \in ShortProfiles \cup FullProfiles,
        hs \in AntennaPairs}

LosPairInit ==
    /\ Idle
    /\ call \in [args : LosPairArgs, i : {0},
                 loopLower : {SecondLoopStart}, loopHigher : {SecondLoopStart},
                 returnedLower : {None}, returnedHigher : {None}]

\* iteration i of the second loop of both calls
LosPairIterate ==
    /\ call.returnedLower = None
    /\ call.i < Len(call.args.elevationProfile)
    /\ LET distance == (call.i + 1) * SAMPLE_INTERVAL_KM
           angle(h) == AngleToTerrain(call.args.observerElevation + h,
                                      call.args.elevationProfile[call.i + 1],
                                      distance)
       IN  call' = [call EXCEPT
                       !.i = @ + 1,
                       !.loopLower =
                           SecondLoopStep(@, angle(call.args.lower), distance),
                       !.loopHigher =
                           SecondLoopStep(@, angle(call.args.higher),
                                          distance)]
    /\ OrchestratorUnchanged

\* both calls return
LosPairReturns ==
    /\ call.returnedLower = None
    /\ call.i >= Len(call.args.elevationProfile)
    /\ call' = [call EXCEPT
                   !.returnedLower =
                       Some(LosResult(call.loopLower.lastVisibleDistance,
                                      SAMPLE_INTERVAL_KM)),
                   !.returnedHigher =
                       Some(LosResult(call.loopHigher.lastVisibleDistance,
                                      SAMPLE_INTERVAL_KM))]
    /\ OrchestratorUnchanged

LosPairNext == LosPairIterate \/ LosPairReturns

LosPairSpec == LosPairInit /\ [][LosPairNext]_vars

\* C30: for a fixed observer ground elevation and terrain profile, every
\* sample that is visible with the lower antenna is visible with the
\* higher one, and the maximum visible distance returned with the higher
\* antenna is at least the one returned with the lower antenna.
C30_HigherAntennaSeesNoLess ==
    /\ \A k \in 1..Len(call.loopLower.visible) :
          call.loopLower.visible[k] => call.loopHigher.visible[k]
    /\ call.loopLower.lastVisibleDistance
           <= call.loopHigher.lastVisibleDistance
    /\ call.returnedLower # None
           => /\ call.returnedHigher # None
              /\ call.returnedLower[1] <= call.returnedHigher[1]

\* a sample hidden behind a nearer one for the lower antenna and seen over
\* it by the higher antenna, which moves the returned distance outward
C30_Witness ==
    /\ call.returnedLower # None
    /\ call.returnedHigher # None
    /\ Len(call.args.elevationProfile) >= 2
    /\ call.loopLower.visible[1]
    /\ ~call.loopLower.visible[2]
    /\ call.loopHigher.visible[2]
    /\ call.returnedLower[1] < call.returnedHigher[1]
====
